---- MODULE Spec2Model ----
(***************************************************************************)
(* h5pxblock/utils.py: unpacking an uploaded H5P package into a storage    *)
(* backend.  The model follows unpack_and_upload_on_cloud and              *)
(* delete_existing_files_cloud statement by statement (the coordinator     *)
(* thread), together with the worker threads of the ThreadPoolExecutor     *)
(* pools they open and the futures' done-callbacks.                        *)
(*                                                                         *)
(* A path is a sequence of tokens: "/" is the separator, "." is one dot,   *)
(* and every other token stands for a run of characters that holds no      *)
(* separator and is not made of dots only ("index.html", "assets").        *)
(* The bytes of the i-th archive entry are EntryData(i); a file that was   *)
(* in the store before the call holds OldData.                             *)
(***************************************************************************)
EXTENDS Integers, Sequences, FiniteSets, TLC

VARIABLES
    isZip,       \* what is_zipfile(package) answers
    archive,     \* h5p_zip.namelist(), once the ZipFile is open
    path,        \* the destination prefix handed to the call
    store,       \* the storage backend: resolved key -> bytes
    store0,      \* the store as it was when the call started
    pc,          \* the statement the coordinator thread is at
    stack,       \* the frames of delete_existing_files_cloud
    idx,         \* position of the write loop in namelist() (0: not started)
    content,     \* the bytes h5p_zip.read returned for the entry at idx
    exc,         \* the exception unwinding the coordinator, or "none"
    tasks,       \* every future submitted so far, in submission order
    pool,        \* number of executors created so far (the current one's id)
    existsCalls, \* the paths storage.exists was called with, in order
    listed,      \* the paths storage.listdir was called with, in order
    log,         \* what was handed to log.info / log.error
    dirs,        \* unpack_package_local_path: the directories of the file system
    ncall        \* unpack_package_local_path: number of calls made so far

vars == <<isZip, archive, path, store, store0, pc, stack, idx, content, exc,
          tasks, pool, existsCalls, listed, log, dirs, ncall>>

\* what only unpack_package_local_path touches
localVars == <<dirs, ncall>>

----------------------------------------------------------------------------
(* Bounds and program constants *)

MaxEntries == 2

\* how many times in a row unpack_package_local_path is called on the path
MaxCalls == 2

\* settings.THREADPOOLEXECUTOR_MAX_WORKERS, configured to 2 here (default 10)
MAX_WORKERS == 2

----------------------------------------------------------------------------
(* posixpath, as the code uses it *)

Sep == "/"

Dot == "."

LastSep(p) ==
    IF \E i \in 1..Len(p) : p[i] = Sep
    THEN CHOOSE i \in 1..Len(p) : p[i] = Sep /\ \A j \in (i+1)..Len(p) : p[j] # Sep
    ELSE 0

FirstSep(p) ==
    IF \E i \in 1..Len(p) : p[i] = Sep
    THEN CHOOSE i \in 1..Len(p) : p[i] = Sep /\ \A j \in 1..(i-1) : p[j] # Sep
    ELSE 0

\* os.path.join(a, b)
Join(a, b) ==
    IF b # <<>> /\ b[1] = Sep THEN b
    ELSE IF a = <<>> \/ a[Len(a)] = Sep THEN a \o b
    ELSE a \o <<Sep>> \o b

\* os.path.basename(p)
Basename(p) == SubSeq(p, LastSep(p) + 1, Len(p))

\* p.split("/")
RECURSIVE Split(_)
Split(p) ==
    IF FirstSep(p) = 0 THEN <<p>>
    ELSE <<SubSeq(p, 1, FirstSep(p) - 1)>> \o Split(SubSeq(p, FirstSep(p) + 1, Len(p)))

IsAbs(p) == p # <<>> /\ p[1] = Sep

\* the component walk of os.path.normpath: "" and "." are dropped, ".." pops
RECURSIVE NormComps(_, _, _)
NormComps(comps, acc, abs) ==
    IF comps = <<>> THEN acc
    ELSE LET c == Head(comps)
             rest == Tail(comps)
         IN  IF c = <<>> \/ c = <<Dot>> THEN NormComps(rest, acc, abs)
             ELSE IF c # <<Dot, Dot>> THEN NormComps(rest, Append(acc, c), abs)
             ELSE IF acc # <<>> /\ acc[Len(acc)] # <<Dot, Dot>>
                  THEN NormComps(rest, SubSeq(acc, 1, Len(acc) - 1), abs)
             ELSE IF abs THEN NormComps(rest, acc, abs)
             ELSE NormComps(rest, Append(acc, c), abs)

\* the location a key names: whether it is absolute, and its components
Resolve(p) == [abs |-> IsAbs(p), comps |-> NormComps(Split(p), <<>>, IsAbs(p))]

\* k lies strictly below the directory d
Under(d, k) ==
    /\ d.abs = k.abs
    /\ Len(d.comps) < Len(k.comps)
    /\ SubSeq(k.comps, 1, Len(d.comps)) = d.comps

----------------------------------------------------------------------------
(* The storage backend: a map from resolved keys to bytes.  A directory    *)
(* exists when some key lies below it.                                     *)

OldData == [src |-> "store", n |-> 0]

EntryData(i) == [src |-> "archive", n |-> i]

RECURSIVE SetToSeq(_)
SetToSeq(S) ==
    IF S = {} THEN <<>>
    ELSE LET x == CHOOSE y \in S : TRUE IN <<x>> \o SetToSeq(S \ {x})

\* mutant: the existence test always answers yes
StoreExistsAlways(s, p) == TRUE

\* storage.exists(p)
StoreExists(s, p) ==
    \/ Resolve(p) \in DOMAIN s
    \/ \E k \in DOMAIN s : Under(Resolve(p), k)

\* the names of the directories directly below p
ListDirs(s, p) ==
    LET d == Resolve(p)
    IN  { k.comps[Len(d.comps) + 1] :
            k \in { k \in DOMAIN s : Under(d, k) /\ Len(k.comps) > Len(d.comps) + 1 } }

\* the names of the files directly below p
ListFiles(s, p) ==
    LET d == Resolve(p)
    IN  { k.comps[Len(d.comps) + 1] :
            k \in { k \in DOMAIN s : Under(d, k) /\ Len(k.comps) = Len(d.comps) + 1 } }

\* storage.delete(key), when it succeeds
StoreDelete(s, key) == [k \in DOMAIN s \ {Resolve(key)} |-> s[k]]

\* storage.save(key, ContentFile(data)), when it succeeds
StoreSave(s, key, data) ==
    [k \in DOMAIN s \cup {Resolve(key)} |-> IF k = Resolve(key) THEN data ELSE s[k]]

----------------------------------------------------------------------------
(* Inputs *)

N_index == <<"index.html">>
N_evil == <<Dot, Dot, Sep, "evil.js">>
N_asset == <<"assets", Sep, "x.png">>
N_dir == <<"assets", Sep>>
N_up == <<"assets", Sep, Dot, Dot>>
N_dot == <<Dot>>
N_abs == <<Sep, "abs.js">>

\* the names the archives are built from; the nested name N_asset comes with
\* the scenario archive
EntryNames == {N_index, N_evil, N_dir, N_up, N_dot, N_abs}

\* spec section 8's scenario
ScenarioArchive == <<N_index, N_evil, N_asset>>

RECURSIVE SeqsUpTo(_, _)
SeqsUpTo(S, n) ==
    IF n = 0 THEN {<<>>}
    ELSE LET shorter == SeqsUpTo(S, n - 1)
         IN  shorter \cup { Append(a, x) : a \in shorter, x \in S }

Archives == SeqsUpTo(EntryNames, MaxEntries) \cup {ScenarioArchive}

Prefixes == { <<"p">>, <<"p", Sep>> }

FilesOf(paths) == [k \in { Resolve(p) : p \in paths } |-> OldData]

\* the store before the call: nothing at the prefix; two files and a
\* subdirectory with a file below it, beside a key that is outside the
\* prefix; two subdirectories with a file each
Stores ==
    { FilesOf({}),
      FilesOf({ <<"p", Sep, "index.html">>,
                <<"p", Sep, "old.js">>,
                <<"p", Sep, "assets", Sep, "x.png">>,
                <<"keep.txt">> }),
      FilesOf({ <<"p", Sep, "assets", Sep, "x.png">>,
                <<"p", Sep, "lib", Sep, "y.js">> }) }

Init ==
    /\ isZip \in BOOLEAN
    /\ path \in Prefixes
    /\ store0 \in Stores
    /\ store = store0
    /\ archive = <<>>
    /\ pc = "Pending"
    /\ stack = <<>>
    /\ idx = 0
    /\ content = OldData
    /\ exc = "none"
    /\ tasks = <<>>
    /\ pool = 0
    /\ existsCalls = <<>>
    /\ listed = <<>>
    /\ log = {}
    /\ dirs = {}
    /\ ncall = 0

----------------------------------------------------------------------------
(* Futures and pools *)

Task(kind, key, data, entry) ==
    [kind |-> kind, key |-> key, data |-> data, entry |-> entry, pool |-> pool,
     st |-> "queued", out |-> "none", cbPending |-> FALSE, cbRuns |-> 0]

PoolTasks(p) == { t \in DOMAIN tasks : tasks[t].pool = p }

\* the worker threads of pool p that are inside a work item
Busy(p) == { t \in PoolTasks(p) : tasks[t].st \in {"running", "finished"} }

\* mutant: the pool starts a thread for every queued task
CanStartWithoutLimit(t) ==
    /\ tasks[t].st = "queued"
    /\ \A u \in PoolTasks(tasks[t].pool) : u < t => tasks[u].st # "queued"

\* a worker thread of the task's pool takes it off the work queue (FIFO); the
\* pool starts at most max_workers threads
CanStart(t) ==
    /\ tasks[t].st = "queued"
    /\ Cardinality(Busy(tasks[t].pool)) < MAX_WORKERS
    /\ \A u \in PoolTasks(tasks[t].pool) : u < t => tasks[u].st # "queued"

\* mutant: the executor is shut down without waiting (shutdown(wait=False))
PoolLeftRunning(p) == TRUE

\* ThreadPoolExecutor.__exit__: shutdown(wait=True) joins every worker thread
PoolDrained(p) == \A t \in PoolTasks(p) : tasks[t].st = "done"

\* mutant: leaving the with block raises what a work item raised, as waiting
\* on future.result() would
PoolExitRaisesTaskError(p) == \E t \in PoolTasks(p) : tasks[t].out = "err"

\* ThreadPoolExecutor.__exit__ never re-raises what a work item raised
PoolExitRaises(p) == FALSE

\* future_result_handler: future.result() returns or raises; both are logged
HandlerLog(t, out) ==
    [level |-> IF out = "ok" THEN "info" ELSE "error", about |-> <<"future", t>>]

\* the future's callbacks run once the task is over
CallbackRuns(t) == tasks[t].cbRuns + 1

----------------------------------------------------------------------------
(* Worker threads *)

\* a worker calls storage.delete(key) or storage.save(key, content)
Start(t) ==
    /\ CanStart(t)
    /\ tasks' = [tasks EXCEPT ![t].st = "running"]
    /\ UNCHANGED <<localVars, isZip, archive, path, store, store0, pc, stack, idx, content,
                   exc, pool, existsCalls, listed, log>>

\* the store call returns or raises; the future's state is set
Finish(t) ==
    /\ tasks[t].st = "running"
    /\ \E out \in {"ok", "err"} :
         /\ tasks' = [tasks EXCEPT ![t].st = "finished", ![t].out = out]
         /\ store' = IF out = "err" THEN store
                     ELSE IF tasks[t].kind = "delete" THEN StoreDelete(store, tasks[t].key)
                     ELSE StoreSave(store, tasks[t].key, tasks[t].data)
    /\ UNCHANGED <<localVars, isZip, archive, path, store0, pc, stack, idx, content, exc,
                   pool, existsCalls, listed, log>>

\* the worker invokes the callback if it was registered before the future was
\* set (cbPending: it is in the future's list and was not invoked yet), then
\* goes back to the work queue
InvokeCallbacks(t) ==
    /\ tasks[t].st = "finished"
    /\ IF tasks[t].cbPending
       THEN /\ tasks' = [tasks EXCEPT ![t].st = "done", ![t].cbPending = FALSE,
                                      ![t].cbRuns = CallbackRuns(t)]
            /\ log' = log \cup {HandlerLog(t, tasks[t].out)}
       ELSE /\ tasks' = [tasks EXCEPT ![t].st = "done"]
            /\ log' = log
    /\ UNCHANGED <<localVars, isZip, archive, path, store, store0, pc, stack, idx, content,
                   exc, pool, existsCalls, listed>>

\* mutant: the callback is only ever put on the future's list, also when the
\* future is already set
AddDoneCallbackOnlyRegisters(t) ==
    /\ tasks' = [tasks EXCEPT ![t].cbPending = TRUE]
    /\ log' = log

\* future.add_done_callback(future_result_handler), called by the coordinator
\* on the task it has just submitted: registered if the future is not set yet,
\* called at once otherwise
AddDoneCallback(t) ==
    IF tasks[t].st \in {"finished", "done"}
    THEN /\ tasks' = [tasks EXCEPT ![t].cbRuns = CallbackRuns(t)]
         /\ log' = log \cup {HandlerLog(t, tasks[t].out)}
    ELSE /\ tasks' = [tasks EXCEPT ![t].cbPending = TRUE]
         /\ log' = log

----------------------------------------------------------------------------
(* delete_existing_files_cloud(storage, path): one frame per call *)

NoData == [src |-> "none", n |-> 0]

Frame(p) == [path |-> p, dirs |-> <<>>, files |-> <<>>, i |-> 1, j |-> 1]

Top == stack[Len(stack)]

SetTop(f) == [stack EXCEPT ![Len(stack)] = f]

Pop == SubSeq(stack, 1, Len(stack) - 1)

\* where the coordinator goes on when the top call returns
AfterReturn == IF Len(stack) = 1 THEN "open_zip" ELSE "del_recurse"

\* if storage.exists(path):
DelExists ==
    /\ pc = "del_exists"
    /\ existsCalls' = Append(existsCalls, Top.path)
    /\ IF StoreExists(store, Top.path)
       THEN /\ pc' = "del_listdir"
            /\ log' = log \cup {[level |-> "info", about |-> <<"deleting", Top.path>>]}
            /\ stack' = stack
       ELSE /\ pc' = AfterReturn
            /\ log' = log
            /\ stack' = Pop
    /\ UNCHANGED <<localVars, isZip, archive, path, store, store0, idx, content, exc, tasks,
                   pool, listed>>

\* dir_names, file_names = storage.listdir(path); with ThreadPoolExecutor(...)
DelListdir ==
    /\ pc = "del_listdir"
    /\ listed' = Append(listed, Top.path)
    /\ stack' = SetTop([Top EXCEPT !.dirs = SetToSeq(ListDirs(store, Top.path)),
                                   !.files = SetToSeq(ListFiles(store, Top.path))])
    /\ pool' = pool + 1
    /\ pc' = "del_submit"
    /\ UNCHANGED <<localVars, isZip, archive, path, store, store0, idx, content, exc, tasks,
                   existsCalls, log>>

\* mutant: the loop over file_names stops one file short
DelSubmitAllButLast ==
    /\ pc = "del_submit"
    /\ IF Top.i < Len(Top.files)
       THEN /\ tasks' = Append(tasks,
                   Task("delete", Join(Top.path, Top.files[Top.i]), NoData, 0))
            /\ pc' = "del_addcb"
       ELSE /\ tasks' = tasks
            /\ pc' = "del_drain"
    /\ UNCHANGED <<localVars, isZip, archive, path, store, store0, stack, idx, content, exc,
                   pool, existsCalls, listed, log>>

\* mutant: storage.delete is handed file_name, not file_path
DelSubmitBareName ==
    /\ pc = "del_submit"
    /\ IF Top.i <= Len(Top.files)
       THEN /\ tasks' = Append(tasks, Task("delete", Top.files[Top.i], NoData, 0))
            /\ pc' = "del_addcb"
       ELSE /\ tasks' = tasks
            /\ pc' = "del_drain"
    /\ UNCHANGED <<localVars, isZip, archive, path, store, store0, stack, idx, content, exc,
                   pool, existsCalls, listed, log>>

\* for file_name in file_names: future = executor.submit(storage.delete, file_path)
DelSubmit ==
    /\ pc = "del_submit"
    /\ IF Top.i <= Len(Top.files)
       THEN /\ tasks' = Append(tasks,
                   Task("delete", Join(Top.path, Top.files[Top.i]), NoData, 0))
            /\ pc' = "del_addcb"
       ELSE /\ tasks' = tasks
            /\ pc' = "del_drain"
    /\ UNCHANGED <<localVars, isZip, archive, path, store, store0, stack, idx, content, exc,
                   pool, existsCalls, listed, log>>

\* future.add_done_callback(future_result_handler)
DelAddCallback ==
    /\ pc = "del_addcb"
    /\ AddDoneCallback(Len(tasks))
    /\ stack' = SetTop([Top EXCEPT !.i = Top.i + 1])
    /\ pc' = "del_submit"
    /\ UNCHANGED <<localVars, isZip, archive, path, store, store0, idx, content, exc, pool,
                   existsCalls, listed>>

\* the end of the with block: the executor is shut down and joined
DelDrain ==
    /\ pc = "del_drain"
    /\ PoolDrained(pool)
    /\ IF PoolExitRaises(pool)
       THEN /\ exc' = "TaskError"
            /\ pc' = "Raised"
       ELSE /\ exc' = exc
            /\ pc' = "del_recurse"
    /\ UNCHANGED <<localVars, isZip, archive, path, store, store0, stack, idx, content, tasks,
                   pool, existsCalls, listed, log>>

\* mutant: the call returns without descending into the subdirectories
DelReturnsWithoutRecursing ==
    /\ pc = "del_recurse"
    /\ stack' = Pop
    /\ pc' = AfterReturn
    /\ UNCHANGED <<localVars, isZip, archive, path, store, store0, idx, content, exc, tasks,
                   pool, existsCalls, listed, log>>

\* for dir_name in dir_names: delete_existing_files_cloud(storage, dir_path);
\* after the last one the call returns
DelRecurse ==
    /\ pc = "del_recurse"
    /\ IF Top.j <= Len(Top.dirs)
       THEN /\ stack' = Append(SetTop([Top EXCEPT !.j = Top.j + 1]),
                               Frame(Join(Top.path, Top.dirs[Top.j])))
            /\ pc' = "del_exists"
       ELSE /\ stack' = Pop
            /\ pc' = AfterReturn
    /\ UNCHANGED <<localVars, isZip, archive, path, store, store0, idx, content, exc, tasks,
                   pool, existsCalls, listed, log>>

----------------------------------------------------------------------------
(* unpack_and_upload_on_cloud(package, storage, path) *)

\* mutant: ".." is not among the skipped basenames
RejectedWithoutDotDot == { <<>>, <<Dot>> }

\* the basenames line 128 skips
Rejected == { <<>>, <<Dot>>, <<Dot, Dot>> }

\* ZipFile.read(name): the bytes of the entry NameToInfo holds for the name,
\* which is the last entry of that name
ZipRead(a, name) ==
    EntryData(CHOOSE i \in 1..Len(a) :
                 a[i] = name /\ \A j \in (i+1)..Len(a) : a[j] # name)

\* the caller calls unpack_and_upload_on_cloud
Call ==
    /\ pc = "Pending"
    /\ pc' = "Validating"
    /\ UNCHANGED <<localVars, isZip, archive, path, store, store0, stack, idx, content, exc,
                   tasks, pool, existsCalls, listed, log>>

\* mutant: the cleanup is started before the package is looked at
ValidateAfterCleanup ==
    /\ pc = "Validating"
    /\ log' = log
    /\ pc' = "del_exists"
    /\ stack' = <<Frame(path)>>
    /\ UNCHANGED <<localVars, isZip, archive, path, store, store0, idx, content, exc, tasks,
                   pool, existsCalls, listed>>

\* if not is_zipfile(package): log.error(...); return
\* delete_existing_files_cloud(storage, path)
Validate ==
    /\ pc = "Validating"
    /\ IF ~isZip
       THEN /\ log' = log \cup {[level |-> "error", about |-> <<"not a valid zip">>]}
            /\ pc' = "Aborted"
            /\ stack' = stack
       ELSE /\ log' = log
            /\ pc' = "del_exists"
            /\ stack' = <<Frame(path)>>
    /\ UNCHANGED <<localVars, isZip, archive, path, store, store0, idx, content, exc, tasks,
                   pool, existsCalls, listed>>

\* with ZipFile(package, 'r') as h5p_zip: with ThreadPoolExecutor(...) as executor:
OpenZip ==
    /\ pc = "open_zip"
    /\ archive' \in Archives
    /\ pool' = pool + 1
    /\ idx' = 1
    /\ pc' = "wr_loop"
    /\ UNCHANGED <<localVars, isZip, path, store, store0, stack, content, exc, tasks,
                   existsCalls, listed, log>>

\* for zipfile_name in h5p_zip.namelist(): real_path = os.path.join(...);
\* if not os.path.basename(real_path) in {"", ".", ".."}:
WrLoop ==
    /\ pc = "wr_loop"
    /\ IF idx > Len(archive)
       THEN /\ pc' = "wr_drain"
            /\ idx' = idx
       ELSE IF Basename(Join(path, archive[idx])) \in Rejected
       THEN /\ pc' = "wr_loop"
            /\ idx' = idx + 1
       ELSE /\ pc' = "wr_read"
            /\ idx' = idx
    /\ UNCHANGED <<localVars, isZip, archive, path, store, store0, stack, content, exc, tasks,
                   pool, existsCalls, listed, log>>

\* h5p_zip.read(zipfile_name), evaluated by the coordinator as an argument of
\* executor.submit: it returns the bytes or raises (a damaged entry)
WrRead ==
    /\ pc = "wr_read"
    /\ \E ok \in BOOLEAN :
         IF ok
         THEN /\ content' = ZipRead(archive, archive[idx])
              /\ exc' = exc
              /\ pc' = "wr_submit"
         ELSE /\ content' = content
              /\ exc' = "BadZipFile"
              /\ pc' = "wr_unwind"
    /\ UNCHANGED <<localVars, isZip, archive, path, store, store0, stack, idx, tasks, pool,
                   existsCalls, listed, log>>

\* mutant: submit waits until a worker of the pool is free
WrSubmitWhenSlotFree ==
    /\ pc = "wr_submit"
    /\ Cardinality(Busy(pool)) < MAX_WORKERS
    /\ tasks' = Append(tasks, Task("save", Join(path, archive[idx]), content, idx))
    /\ pc' = "wr_addcb"
    /\ UNCHANGED <<localVars, isZip, archive, path, store, store0, stack, idx, content, exc,
                   pool, existsCalls, listed, log>>

\* mutant: the task is submitted without the bytes, to read them in the worker
WrSubmitWithoutBytes ==
    /\ pc = "wr_submit"
    /\ tasks' = Append(tasks, Task("save", Join(path, archive[idx]), NoData, idx))
    /\ pc' = "wr_addcb"
    /\ UNCHANGED <<localVars, isZip, archive, path, store, store0, stack, idx, content, exc,
                   pool, existsCalls, listed, log>>

\* future = executor.submit(storage.save, real_path, ContentFile(...))
WrSubmit ==
    /\ pc = "wr_submit"
    /\ tasks' = Append(tasks, Task("save", Join(path, archive[idx]), content, idx))
    /\ pc' = "wr_addcb"
    /\ UNCHANGED <<localVars, isZip, archive, path, store, store0, stack, idx, content, exc,
                   pool, existsCalls, listed, log>>

\* future.add_done_callback(future_result_handler)
WrAddCallback ==
    /\ pc = "wr_addcb"
    /\ AddDoneCallback(Len(tasks))
    /\ idx' = idx + 1
    /\ pc' = "wr_loop"
    /\ UNCHANGED <<localVars, isZip, archive, path, store, store0, stack, content, exc, pool,
                   existsCalls, listed>>

\* the end of the with blocks after the loop: the executor is joined, the
\* ZipFile is closed, the function returns
WrDrain ==
    /\ pc = "wr_drain"
    /\ PoolDrained(pool)
    /\ IF PoolExitRaises(pool)
       THEN /\ exc' = "TaskError"
            /\ pc' = "Raised"
       ELSE /\ exc' = exc
            /\ pc' = "Completed"
    /\ UNCHANGED <<localVars, isZip, archive, path, store, store0, stack, idx, content, tasks,
                   pool, existsCalls, listed, log>>

\* the with blocks left by the exception of h5p_zip.read: the executor is
\* joined, the ZipFile is closed, the exception goes on to the caller
WrUnwind ==
    /\ pc = "wr_unwind"
    /\ PoolDrained(pool)
    /\ pc' = "Raised"
    /\ UNCHANGED <<localVars, isZip, archive, path, store, store0, stack, idx, content, exc,
                   tasks, pool, existsCalls, listed, log>>

----------------------------------------------------------------------------

Coordinator ==
    \/ Call
    \/ Validate
    \/ DelExists
    \/ DelListdir
    \/ DelSubmit
    \/ DelAddCallback
    \/ DelDrain
    \/ DelRecurse
    \/ OpenZip
    \/ WrLoop
    \/ WrRead
    \/ WrSubmit
    \/ WrAddCallback
    \/ WrDrain
    \/ WrUnwind

Worker ==
    \E t \in DOMAIN tasks :
        \/ Start(t)
        \/ Finish(t)
        \/ InvokeCallbacks(t)

Next == Coordinator \/ Worker

Spec == Init /\ [][Next]_vars

\* the threads are scheduled: a step that stays possible is taken; the store
\* calls and the reads return or raise
FairSpec == Spec /\ WF_vars(Next)

----------------------------------------------------------------------------
(* unpack_package_local_path: the local file system.  store holds the      *)
(* regular files (resolved path -> bytes), dirs the directories; store0    *)
(* is the files as they were when the current call started.  The working   *)
(* directory, which the relative destination lies in, exists.              *)

\* the bytes call c extracts for the i-th entry of its archive
LocalData(c, i) == [src |-> "archive", call |-> c, n |-> i]

\* what is on disk of an entry whose CRC check failed at the end of the copy
DamagedData(c, i) == [src |-> "damaged", call |-> c, n |-> i]

\* the directories above k, the working directory aside
AncestorDirs(k) ==
    { [abs |-> k.abs, comps |-> SubSeq(k.comps, 1, n)] : n \in 1..(Len(k.comps) - 1) }

\* the file system before the first call: nothing at the destination; an
\* empty destination; a destination with a file and a subdirectory with a
\* file, beside a file outside the destination
LocalTrees ==
    { [files |-> FilesOf({}), dirs |-> {}],
      [files |-> FilesOf({}), dirs |-> {Resolve(<<"p">>)}],
      [files |-> FilesOf({ <<"p", Sep, "old.js">>,
                           <<"p", Sep, "assets", Sep, "x.png">>,
                           <<"keep.txt">> }),
       dirs |-> {Resolve(<<"p">>), Resolve(<<"p", Sep, "assets">>)}] }

\* the archives handed to unpack_package_local_path; extractall treats the
\* absolute name as it treats the name with "..", which stays
LocalArchives == SeqsUpTo(EntryNames \ {N_abs}, MaxEntries) \cup {ScenarioArchive}

InitLocal ==
    /\ isZip \in BOOLEAN
    /\ path \in Prefixes
    /\ \E t \in LocalTrees :
          /\ store0 = t.files
          /\ store = t.files
          /\ dirs = t.dirs
    /\ archive = <<>>
    /\ pc = "L_Idle"
    /\ stack = <<>>
    /\ idx = 0
    /\ content = OldData
    /\ exc = "none"
    /\ tasks = <<>>
    /\ pool = 0
    /\ existsCalls = <<>>
    /\ listed = <<>>
    /\ log = {}
    /\ ncall = 0

cloudVars == <<stack, content, tasks, pool, existsCalls, listed>>

\* os.path.exists(p)
LocalExists(p) == Resolve(p) \in dirs \/ Resolve(p) \in DOMAIN store

\* d or something below d
AtOrUnder(d, k) == k = d \/ Under(d, k)

\* the caller calls unpack_package_local_path(package, path), for the first
\* time or again after the call before is over
LCall ==
    /\ pc \in {"L_Idle", "L_Returned", "L_Raised"}
    /\ ncall < MaxCalls
    /\ ncall' = ncall + 1
    /\ isZip' \in BOOLEAN
    /\ store0' = store
    /\ archive' = <<>>
    /\ idx' = 0
    /\ exc' = "none"
    /\ log' = {}
    /\ pc' = "L_delete"
    /\ UNCHANGED <<cloudVars, path, store, dirs>>

\* mutant: delete_path leaves the tree where it is
delete_path_keeps ==
    /\ pc = "L_delete"
    /\ pc' = "L_makedirs"
    /\ UNCHANGED <<cloudVars, isZip, archive, path, store, store0, idx, exc, log,
                   dirs, ncall>>

\* delete_path(path): if os.path.exists(path): shutil.rmtree(path)
delete_path ==
    /\ pc = "L_delete"
    /\ IF LocalExists(path)
       THEN /\ store' = [k \in { k \in DOMAIN store : ~AtOrUnder(Resolve(path), k) }
                            |-> store[k]]
            /\ dirs' = { d \in dirs : ~AtOrUnder(Resolve(path), d) }
       ELSE UNCHANGED <<store, dirs>>
    /\ pc' = "L_makedirs"
    /\ UNCHANGED <<cloudVars, isZip, archive, path, store0, idx, exc, log, ncall>>

\* mutant: the destination is not created again
makedirs_skipped ==
    /\ pc = "L_makedirs"
    /\ pc' = "L_validate"
    /\ UNCHANGED <<cloudVars, isZip, archive, path, store, store0, idx, exc, log,
                   dirs, ncall>>

\* os.makedirs(path): creates the directory and the missing ones above it;
\* FileExistsError when the path exists
makedirs ==
    /\ pc = "L_makedirs"
    /\ IF LocalExists(path)
       THEN /\ exc' = "FileExistsError"
            /\ pc' = "L_Raised"
            /\ dirs' = dirs
       ELSE IF \E a \in AncestorDirs(Resolve(path)) : a \in DOMAIN store
       THEN /\ exc' = "NotADirectoryError"
            /\ pc' = "L_Raised"
            /\ dirs' = dirs
       ELSE /\ exc' = exc
            /\ pc' = "L_validate"
            /\ dirs' = dirs \cup AncestorDirs(Resolve(path)) \cup {Resolve(path)}
    /\ UNCHANGED <<cloudVars, isZip, archive, path, store, store0, idx, log, ncall>>

\* if not is_zipfile(package): log.error(...); return
LValidate ==
    /\ pc = "L_validate"
    /\ IF ~isZip
       THEN /\ log' = log \cup {[level |-> "error", about |-> <<"not a valid zip">>]}
            /\ pc' = "L_Returned"
       ELSE /\ log' = log
            /\ pc' = "L_open"
    /\ UNCHANGED <<cloudVars, isZip, archive, path, store, store0, idx, exc, dirs, ncall>>

\* with ZipFile(package, 'r') as h5p_zip: log.info(...); extractall starts
\* on namelist()
LOpenZip ==
    /\ pc = "L_open"
    /\ archive' \in LocalArchives
    /\ log' = log \cup {[level |-> "info", about |-> <<"extracting">>]}
    /\ idx' = 1
    /\ pc' = "L_extract"
    /\ UNCHANGED <<cloudVars, isZip, path, store, store0, exc, dirs, ncall>>

\* ZipFile._extract_member: the components "", "." and ".." of the entry
\* name are dropped
RECURSIVE Kept(_)
Kept(comps) ==
    IF comps = <<>> THEN <<>>
    ELSE IF Head(comps) \in { <<>>, <<Dot>>, <<Dot, Dot>> } THEN Kept(Tail(comps))
    ELSE <<Head(comps)>> \o Kept(Tail(comps))

\* the path extractall writes the entry to: the kept components, below path
Target(name) ==
    [abs |-> Resolve(path).abs, comps |-> Resolve(path).comps \o Kept(Split(name))]

\* ZipInfo.is_dir(): the name ends with "/"
IsDirEntry(name) == name # <<>> /\ name[Len(name)] = Sep

\* the directories of the target that lie below path
UpperDirs(t) == { a \in AncestorDirs(t) : Under(Resolve(path), a) }

\* ZipFile.getinfo(name): the entry NameToInfo holds for the name, which is
\* the last entry of that name
LastOf(a, name) ==
    CHOOSE i \in 1..Len(a) : a[i] = name /\ \A j \in (i+1)..Len(a) : a[j] # name

\* extractall(path), one member: _extract_member creates the directories
\* above the target, then the directory itself for a directory entry, or
\* opens the target for writing and copies the entry, whose CRC is checked
\* at the end of the copy
LExtract ==
    /\ pc = "L_extract"
    /\ idx <= Len(archive)
    /\ LET name == archive[idx]
           t == Target(name)
           made == dirs \cup UpperDirs(t)
           raise(e) == /\ exc' = e
                       /\ pc' = "L_Raised"
                       /\ idx' = idx
           goon == /\ exc' = exc
                   /\ pc' = pc
                   /\ idx' = idx + 1
       IN  IF \E a \in UpperDirs(t) : a \in DOMAIN store
           THEN raise("NotADirectoryError") /\ UNCHANGED <<store, dirs>>
           ELSE IF IsDirEntry(name)
           THEN IF t \in made
                THEN goon /\ dirs' = made /\ store' = store
                ELSE IF t \in DOMAIN store
                THEN raise("FileExistsError") /\ dirs' = made /\ store' = store
                ELSE goon /\ dirs' = made \cup {t} /\ store' = store
           ELSE IF t \in made
           THEN raise("IsADirectoryError") /\ dirs' = made /\ store' = store
           ELSE /\ dirs' = made
                /\ \/ /\ goon
                      /\ store' = [k \in DOMAIN store \cup {t} |->
                                     IF k = t THEN LocalData(ncall, LastOf(archive, name))
                                     ELSE store[k]]
                   \/ /\ raise("BadZipFile")
                      /\ store' = [k \in DOMAIN store \cup {t} |->
                                     IF k = t THEN DamagedData(ncall, LastOf(archive, name))
                                     ELSE store[k]]
    /\ UNCHANGED <<cloudVars, isZip, archive, path, store0, log, ncall>>

\* every member is extracted: the with block is left and the function returns
LReturn ==
    /\ pc = "L_extract"
    /\ idx > Len(archive)
    /\ pc' = "L_Returned"
    /\ UNCHANGED <<cloudVars, isZip, archive, path, store, store0, idx, exc, log,
                   dirs, ncall>>

NextLocal ==
    \/ LCall
    \/ delete_path
    \/ makedirs
    \/ LValidate
    \/ LOpenZip
    \/ LExtract
    \/ LReturn

SpecLocal == InitLocal /\ [][NextLocal]_vars

----------------------------------------------------------------------------
(* Vocabulary of the properties *)

SaveTasks == { t \in DOMAIN tasks : tasks[t].kind = "save" }

DeleteTasks == { t \in DOMAIN tasks : tasks[t].kind = "delete" }

\* the tasks whose store call has been made
Issued == { t \in DOMAIN tasks : tasks[t].st # "queued" }

\* the basenames an entry must not have to be written
EmptyDotDotDot == { <<>>, <<".">>, <<".", ".">> }

Survivors == { i \in 1..Len(archive) : Basename(archive[i]) \notin EmptyDotDotDot }

SavesOf(i) == { t \in SaveTasks : tasks[t].entry = i }

\* the control has gone back to the caller
Returned == pc \in {"Aborted", "Completed", "Raised"}

\* the keys that were below the destination prefix before the call
PriorKeys == { k \in DOMAIN store0 : Under(Resolve(path), k) }

\* key k holds what a save task of this call wrote to it
WrittenByCall(k) ==
    \E t \in SaveTasks :
        /\ Resolve(tasks[t].key) = k
        /\ tasks[t].out = "ok"
        /\ k \in DOMAIN store
        /\ store[k] = tasks[t].data

----------------------------------------------------------------------------
(* C1: every key handed to storage.save resolves to a location below the   *)
(* destination prefix, whatever the entry name.                            *)
C1_SaveKeysUnderPrefix ==
    \A t \in SaveTasks \cap Issued : Under(Resolve(path), Resolve(tasks[t].key))

(* C2: for the archive index.html, ../evil.js, assets/x.png no save is     *)
(* ever issued for ../evil.js.                                             *)
C2_EvilNeverSaved ==
    archive = <<N_index, N_evil, N_asset>> =>
        \A t \in SaveTasks \cap Issued : archive[tasks[t].entry] # N_evil

(* C3: an entry whose basename is "", "." or ".." never gets a save task,  *)
(* and skipping it is not an error: the loop goes on to the entries after  *)
(* it, so an exception only ever comes from an entry that is not skipped,  *)
(* every entry the loop has passed is either skipped or has its task, and  *)
(* a normal return has passed them all.                                    *)
C3_RejectedSkippedSilently ==
    LET surv == Survivors
        saved == { tasks[t].entry : t \in SaveTasks }
    IN  /\ saved \subseteq surv
        /\ pc \in {"wr_unwind", "Raised"} => idx \in surv
        /\ \A i \in surv : i < idx => i \in saved
        /\ pc = "Completed" => idx = Len(archive) + 1

C3_Witness ==
    /\ pc = "Completed"
    /\ \E i \in 1..Len(archive) : \E j \in 1..Len(archive) :
          /\ i < j
          /\ i \notin Survivors
          /\ SavesOf(j) # {}
          /\ \A t \in SavesOf(j) : tasks[t].st = "done"

(* C4: once the call has returned, every entry that survives the filter    *)
(* has exactly one save task, carrying that entry's bytes, and there is no *)
(* other save task.                                                        *)
C4_OneTaskPerSurvivorWithItsBytes ==
    Returned =>
        /\ \A i \in Survivors :
              /\ Cardinality(SavesOf(i)) = 1
              /\ \A t \in SavesOf(i) : tasks[t].data = EntryData(i)
        /\ Cardinality(SaveTasks) = Cardinality(Survivors)

(* C5: when the package is not a zip, no store call is ever made, the      *)
(* store stays as it was, and the call ends in Aborted with the error      *)
(* logged.                                                                 *)
C5_InvalidArchiveTouchesNothing ==
    ~isZip =>
        /\ store = store0
        /\ existsCalls = <<>>
        /\ listed = <<>>
        /\ tasks = <<>>
        /\ pc \in {"Pending", "Validating", "Aborted"}
        /\ pc = "Aborted" =>
              [level |-> "error", about |-> <<"not a valid zip">>] \in log

C5_Witness ==
    /\ ~isZip
    /\ pc = "Aborted"
    /\ PriorKeys # {}

(* C6, as stated: after a completed call every key that was below the      *)
(* prefix before it is absent or holds what a save task of the call wrote. *)
C6_NoPriorFileRemains ==
    pc = "Completed" =>
        \A k \in PriorKeys : k \notin DOMAIN store \/ WrittenByCall(k)

(* C6, amended: after a completed call every key that was below the prefix *)
(* before it is absent, or holds what a save task of the call wrote, or    *)
(* its storage.delete failed.                                              *)
C6_NoPriorFileRemainsUnlessDeleteFailed ==
    pc = "Completed" =>
        \A k \in PriorKeys :
            \/ k \notin DOMAIN store
            \/ WrittenByCall(k)
            \/ \E t \in DeleteTasks : Resolve(tasks[t].key) = k /\ tasks[t].out = "err"

C6_Witness ==
    /\ pc = "Completed"
    /\ \A t \in DeleteTasks : tasks[t].out = "ok"
    /\ \E k \in PriorKeys : WrittenByCall(k)
    /\ \E k \in PriorKeys : Len(k.comps) > Len(Resolve(path).comps) + 1 /\ k \notin DOMAIN store

(* C7: at every moment at most MAX_WORKERS store calls (delete or save)    *)
(* are executing, over all the pools of the call.                          *)
C7_AtMostMaxWorkersRunning ==
    Cardinality({ t \in DOMAIN tasks : tasks[t].st = "running" }) <= MAX_WORKERS

C7_Witness ==
    \E q \in DOMAIN tasks :
        /\ tasks[q].st = "queued"
        /\ Cardinality({ t \in PoolTasks(tasks[q].pool) : tasks[t].st = "running" }) = MAX_WORKERS

(* C8: when the call has returned, normally or by an exception, no task is *)
(* queued or running and the callback of every submitted task has run.     *)
C8_ReturnedMeansDrained ==
    Returned => \A t \in DOMAIN tasks : tasks[t].st = "done" /\ tasks[t].cbRuns >= 1

C8_Witness ==
    /\ pc = "Raised"
    /\ DeleteTasks # {}
    /\ SaveTasks # {}

(* C9: a failing read or save of one entry is only logged: the call        *)
(* returns normally, and every surviving entry has had its one save task   *)
(* run.                                                                    *)
C9_EntryFailureOnlyLogged ==
    Returned /\ isZip =>
        /\ pc = "Completed"
        /\ exc = "none"
        /\ \A i \in Survivors :
              /\ Cardinality(SavesOf(i)) = 1
              /\ \A t \in SavesOf(i) : tasks[t].st = "done"

(* C10: a failing storage.delete is not escalated: when the cleanup has    *)
(* returned every file that was below the prefix has had its delete        *)
(* issued, whatever failed, and the only exception the call ever raises is *)
(* the one of a read in the write phase.                                   *)
C10_DeleteFailureNotEscalated ==
    /\ pc = "open_zip" =>
          LET deleted == { Resolve(tasks[t].key) :
                             t \in { u \in DeleteTasks : tasks[u].st = "done" } }
          IN  \A k \in PriorKeys : k \in deleted
    /\ exc # "none" => exc = "BadZipFile" /\ idx >= 1
    /\ pc = "Raised" => idx >= 1

C10_Witness ==
    /\ pc = "wr_loop"
    /\ \E t \in DeleteTasks : \E u \in DeleteTasks :
          /\ tasks[t].out = "err"
          /\ tasks[u].pool > tasks[t].pool
          /\ tasks[u].st = "done"
    /\ \E t \in DeleteTasks : \E u \in DeleteTasks :
          /\ t < u
          /\ tasks[t].out = "err"
          /\ tasks[u].pool = tasks[t].pool

----------------------------------------------------------------------------
\* add_done_callback has been called on task t
CallbackAdded(t) == t < Len(tasks) \/ pc \notin {"del_addcb", "wr_addcb"}

(* C11: future_result_handler runs exactly once for every submitted task,  *)
(* with the task's outcome (info for a value, error for a failure):        *)
(* never twice, never before the task is over, and it has run as soon as   *)
(* the task is done and add_done_callback has been called, whichever came  *)
(* first.                                                                  *)
C11_CallbackExactlyOnce ==
    \A t \in DOMAIN tasks :
        /\ tasks[t].cbRuns <= 1
        /\ tasks[t].cbRuns = 1 =>
              /\ tasks[t].st \in {"finished", "done"}
              /\ [level |-> IF tasks[t].out = "ok" THEN "info" ELSE "error",
                  about |-> <<"future", t>>] \in log
        /\ [level |-> IF tasks[t].out = "ok" THEN "error" ELSE "info",
            about |-> <<"future", t>>] \notin log
        /\ (tasks[t].st = "done" /\ CallbackAdded(t)) => tasks[t].cbRuns = 1

\* a task that was over before add_done_callback was called on it: the
\* coordinator has run the handler, the worker is still in the work item;
\* and a task whose handler the worker ran
C11_Witness ==
    /\ \E t \in DOMAIN tasks :
          tasks[t].st = "finished" /\ tasks[t].cbRuns = 1 /\ tasks[t].out = "err"
    /\ \E t \in DOMAIN tasks :
          tasks[t].st = "done" /\ tasks[t].cbRuns = 1 /\ tasks[t].out = "ok"

----------------------------------------------------------------------------
\* nothing is at the prefix, nor below it, when the call starts
NoPrefix == PriorKeys = {} /\ Resolve(path) \notin DOMAIN store0

\* the cleanup (delete_existing_files_cloud) has not returned yet
Cleaning == idx = 0

(* C14: when the prefix does not exist delete_existing_files_cloud is a    *)
(* no-op: one storage.exists, no listdir, no delete task, no exception,    *)
(* and the store is as it was when the cleanup returns.                    *)
C14_MissingPrefixIsNoOp ==
    (Cleaning /\ NoPrefix) =>
        /\ listed = <<>>
        /\ tasks = <<>>
        /\ Len(existsCalls) <= 1
        /\ store = store0
        /\ exc = "none"
        /\ pc # "Raised"

C14_Witness ==
    /\ NoPrefix
    /\ pc = "open_zip"
    /\ existsCalls = <<path>>

(* C15: the cleanup is over before the first write: once the write phase   *)
(* has begun every delete task is done, no delete task is submitted after  *)
(* a save task, and when the call has returned every key a save task wrote *)
(* is still in the store with bytes of the archive.                        *)
C15_CleanupBeforeWrites ==
    /\ (~Cleaning \/ SaveTasks # {}) => \A d \in DeleteTasks : tasks[d].st = "done"
    /\ \A t \in SaveTasks : \A u \in DOMAIN tasks : u > t => tasks[u].kind = "save"
    /\ pc \in {"Completed", "Raised"} =>
          \A t \in SaveTasks :
              tasks[t].out = "ok" =>
                  /\ Resolve(tasks[t].key) \in DOMAIN store
                  /\ store[Resolve(tasks[t].key)].src = "archive"

C15_Witness ==
    /\ \E t \in SaveTasks : tasks[t].st = "running"
    /\ \E d \in DeleteTasks : tasks[d].pool >= 2
    /\ \E d \in DeleteTasks : tasks[d].out = "ok"

\* the directory a key is in
DirOf(k) == [abs |-> k.abs, comps |-> SubSeq(k.comps, 1, Len(k.comps) - 1)]

(* C16: while a subdirectory is being processed the delete tasks of all    *)
(* the files of the directories above it have been submitted; the deletes  *)
(* of a directory's own files come before those of the files below it; and *)
(* directories are processed one after another: the deletes of one are     *)
(* done before those of the next are submitted.                            *)
C16_DepthSequential ==
    Cleaning =>
        /\ \A f \in 1..(Len(stack) - 1) :
              /\ stack[f].i = Len(stack[f].files) + 1
              /\ \A n \in 1..Len(stack[f].files) :
                    \E t \in DeleteTasks :
                        tasks[t].key = Join(stack[f].path, stack[f].files[n])
        /\ \A t \in DeleteTasks : \A u \in DeleteTasks :
              /\ Under(DirOf(Resolve(tasks[t].key)), DirOf(Resolve(tasks[u].key)))
                    => t < u
              /\ tasks[t].pool < tasks[u].pool => tasks[t].st = "done"
        /\ \A n \in 1..Len(existsCalls) : \A k \in PriorKeys :
              Under(DirOf(k), Resolve(existsCalls[n])) =>
                  \E t \in DeleteTasks : Resolve(tasks[t].key) = k

\* two sibling deletes run at the same time and the later submitted one is
\* over first, in a directory that has a subdirectory still to be processed
C16_Witness ==
    /\ Len(stack) = 1
    /\ Len(Top.dirs) >= 1
    /\ \E t \in DeleteTasks : \E u \in DeleteTasks :
          /\ t < u
          /\ tasks[t].pool = tasks[u].pool
          /\ tasks[t].st = "running"
          /\ tasks[u].st = "finished"

C19_ReadByCoordinatorBeforeSubmit ==
    /\ \A t \in SaveTasks :
          /\ tasks[t].data.src = "archive"
          /\ archive[tasks[t].data.n] = archive[tasks[t].entry]
    /\ pc = "wr_submit" =>
          /\ content.src = "archive"
          /\ archive[content.n] = archive[idx]
    /\ pc = "wr_addcb" => tasks[Len(tasks)].data = content

C19_Witness ==
    /\ pc = "wr_read"
    /\ idx = 2
    /\ \E t \in SaveTasks : tasks[t].st = "queued" /\ tasks[t].data = EntryData(1)

\* the directories at and below the prefix when the call starts
PriorDirs ==
    UNION { { [abs |-> k.abs, comps |-> SubSeq(k.comps, 1, n)] :
                n \in Len(Resolve(path).comps)..(Len(k.comps) - 1) } :
            k \in PriorKeys }

(* C20: the cleanup lists every directory at or below the prefix once,     *)
(* submits one storage.delete for every file below the prefix and none for *)
(* any other key, and leaves the keys outside the prefix as they were.     *)
C20_OneListdirOneDeletePerFile ==
    /\ Cleaning =>
          /\ \A t \in DeleteTasks : Resolve(tasks[t].key) \in PriorKeys
          /\ \A t \in DeleteTasks : \A u \in DeleteTasks :
                tasks[t].key = tasks[u].key => t = u
          /\ \A m \in 1..Len(listed) : \A n \in 1..Len(listed) :
                listed[m] = listed[n] => m = n
          /\ \A k \in DOMAIN store0 \ PriorKeys :
                k \in DOMAIN store /\ store[k] = store0[k]
    /\ pc = "open_zip" =>
          /\ { Resolve(tasks[t].key) : t \in DeleteTasks } = PriorKeys
          /\ { Resolve(listed[n]) : n \in 1..Len(listed) } = PriorDirs

C20_Witness ==
    /\ pc = "open_zip"
    /\ Len(listed) >= 3
    /\ Cardinality(DeleteTasks) >= 2
    /\ \E t \in DeleteTasks : tasks[t].out = "err"

----------------------------------------------------------------------------
\* the phase of the extraction the coordinator is in
Phase ==
    CASE pc = "Pending" -> "Pending"
      [] pc = "Validating" -> "Validating"
      [] pc = "Aborted" -> "Aborted"
      [] pc \in {"del_exists", "del_listdir", "del_submit", "del_addcb",
                 "del_drain", "del_recurse"} -> "Cleaning"
      [] pc \in {"open_zip", "wr_loop", "wr_read", "wr_submit", "wr_addcb",
                 "wr_drain", "wr_unwind"} -> "WritingEntries"
      [] pc = "Completed" -> "Completed"
      [] OTHER -> "Failed"

PhaseSteps ==
    { <<"Pending", "Validating">>, <<"Validating", "Aborted">>,
      <<"Validating", "Cleaning">>, <<"Cleaning", "WritingEntries">>,
      <<"WritingEntries", "Completed">> }

(* C18: the extraction goes Pending, Validating, then Aborted, or          *)
(* Cleaning, WritingEntries, Completed, one phase after the other, and     *)
(* it ends in Aborted or Completed.                                        *)
C18_PhasesInOrderToTheEnd ==
    /\ [][Phase' = Phase \/ <<Phase, Phase'>> \in PhaseSteps]_vars
    /\ <>(Phase \in {"Aborted", "Completed"})

----------------------------------------------------------------------------
(* unpack_package_local_path *)

\* the call to unpack_package_local_path is over, by return or by exception
LOver == pc \in {"L_Returned", "L_Raised"}

Dest == Resolve(path)

FilesBelowDest == { k \in DOMAIN store : Under(Dest, k) }

DirsBelowDest == { d \in dirs : Under(Dest, d) }

FileEntries == { i \in 1..Len(archive) : ~IsDirEntry(archive[i]) }

(* C12: when unpack_package_local_path is called again on the same path    *)
(* with a valid archive, the destination holds, once the call has          *)
(* returned, exactly the files and directories of that archive, each file  *)
(* with the bytes of that archive; and however the call ends, no file and  *)
(* no directory of before the call remains below the destination.          *)
C12_SecondCallOverwrites ==
    (ncall > 1 /\ isZip) =>
        /\ LOver =>
             /\ \A k \in FilesBelowDest :
                   store[k].src # "store" /\ store[k].call = ncall
             /\ \A d \in DirsBelowDest :
                   \E i \in 1..Len(archive) :
                       d = Target(archive[i]) \/ d \in UpperDirs(Target(archive[i]))
             /\ Dest \in dirs
             /\ Dest \notin DOMAIN store
        /\ pc = "L_Returned" =>
             /\ FilesBelowDest = { Target(archive[i]) : i \in FileEntries }
             /\ \A i \in FileEntries :
                   \E j \in FileEntries :
                       /\ Target(archive[j]) = Target(archive[i])
                       /\ store[Target(archive[i])] = LocalData(ncall, j)
             /\ DirsBelowDest =
                   UNION { UpperDirs(Target(archive[i])) : i \in 1..Len(archive) }
                   \cup { Target(archive[i]) :
                            i \in { i \in 1..Len(archive) : IsDirEntry(archive[i])
                                       /\ Target(archive[i]) # Dest } }

\* the second call has returned; the first one had extracted a file that the
\* second archive does not have, and it is gone
C12_Witness ==
    /\ ncall = 2
    /\ isZip
    /\ pc = "L_Returned"
    /\ FilesBelowDest # {}
    /\ \E k \in DOMAIN store0 :
          /\ Under(Dest, k)
          /\ store0[k].src = "archive"
          /\ k \notin DOMAIN store

(* C13: when unpack_package_local_path is called with a package that is    *)
(* no zip file, then once the call is over the destination is a directory  *)
(* and there is nothing below it, whatever was there before the call, and  *)
(* the call has returned without an exception.                             *)
C13_InvalidLeavesEmptyDir ==
    (ncall > 0 /\ ~isZip /\ LOver) =>
        /\ pc = "L_Returned"
        /\ exc = "none"
        /\ Dest \in dirs
        /\ FilesBelowDest = {}
        /\ DirsBelowDest = {}
        /\ archive = <<>>
        /\ [level |-> "error", about |-> <<"not a valid zip">>] \in log

\* the call with an invalid package is over, and the destination held files
\* when it started
C13_Witness ==
    /\ ncall > 0
    /\ ~isZip
    /\ pc = "L_Returned"
    /\ \E k \in DOMAIN store0 : Under(Dest, k)

====
